---------------------------- MODULE Spec2Model ----------------------------
(***************************************************************************)
(* A model of the DuckDB-backed store of MockBigQuery (src/database.py):   *)
(* the tags table, the research_extractions table, the derived             *)
(* extraction_tags relationship table, the linker that fills it, and the   *)
(* filtered reads over them; and of the mock-data ingestion of             *)
(* src/initialization.py that feeds the store.                             *)
(*                                                                         *)
(* Strings on which the code computes character by character (tag names,   *)
(* date strings) are sequences of character codes, so that                 *)
(* str.replace(' ', ''), len() and the engine's VARCHAR comparison are     *)
(* modelled by what they do.  Category names, on which the code only       *)
(* tests equality, are TLA+ strings.                                       *)
(***************************************************************************)
EXTENDS Integers, Sequences, FiniteSets, TLC

VARIABLES
    tags,                   \* rows of table tags
    research_extractions,   \* rows of table research_extractions
    extraction_tags,        \* rows of table extraction_tags
    ret,                    \* what the last call gave back to its caller
    request_table,          \* rows of the table POST /insert writes to
    calls,                  \* per request thread, the call it is part-way through
    description             \* conn.description of the one shared connection

vars == <<tags, research_extractions, extraction_tags, ret,
          request_table, calls, description>>

\* What the calls that run alone, from their first statement to their return,
\* leave as it is: they write to no table of POST /insert, no other call is
\* part-way through while they run, and each of them executes its own
\* statement before it reads conn.description, so that the description kept
\* here is the one the calls read that run statement by statement.
elsewhere == <<request_table, calls, description>>

\* The request threads of the server (main.py runs its handlers, plain
\* functions, in the thread pool of the framework) and a thread between calls.
Threads == { "a", "b" }
Idle == [ op |-> "idle" ]

(***************************************************************************)
(* Bounds of the model.                                                    *)
(***************************************************************************)
MaxTags == 3                \* rows of table tags
MaxExtractions == 2         \* rows of table research_extractions
MaxLinkTags == 2            \* the same two, under SpecLink
MaxLinkExtractions == 1


(***************************************************************************)
(* Strings as sequences of character codes.                                *)
(***************************************************************************)
SPACE == 32             \* ord(' ')

IsDigit(c) == c >= 48 /\ c <= 57        \* '0' .. '9'
DigitValue(c) == c - 48

\* The order of two VARCHAR values: code by code, a proper prefix first.
RECURSIVE StrLess(_, _)
StrLess(a, b) ==
    IF b = <<>> THEN FALSE
    ELSE IF a = <<>> THEN TRUE
    ELSE IF Head(a) # Head(b) THEN Head(a) < Head(b)
    ELSE StrLess(Tail(a), Tail(b))

StrLeq(a, b) == a = b \/ StrLess(a, b)

\* str.replace(' ', '')
RemoveSpaces(s) == SelectSeq(s, LAMBDA c : c # SPACE)

Range(s) == { s[i] : i \in DOMAIN s }

\* The tag names the model uses.
Japan == <<74, 97, 112, 97, 110>>                                   \* "Japan"
Equity == <<69, 113, 117, 105, 116, 121>>                           \* "Equity"
Technology == <<84, 101, 99, 104, 110, 111, 108, 111, 103, 121>>    \* "Technology"
GoldmanSachs == <<71, 111, 108, 100, 109, 97, 110, 83, 97, 99, 104, 115>>
                                                                    \* "GoldmanSachs"
Goldman_Sachs == <<71, 111, 108, 100, 109, 97, 110, 32, 83, 97, 99, 104, 115>>
                                                                    \* "Goldman Sachs"
Asia_Pacific == <<65, 115, 105, 97, 32, 80, 97, 99, 105, 102, 105, 99>>
                                                                    \* "Asia Pacific"
EmptyStr == <<>>                                                    \* ""

\* Optional values (strings, timestamps, integers) are sequences of numbers
\* too; None and Absent are two sequences that no value is.
None == << -1 >>        \* Python None, SQL NULL
Absent == << -2 >>      \* a key the dict does not hold


(***************************************************************************)
(* The tables (_initialize_database).                                      *)
(*   tags                 [id, name, category]          PRIMARY KEY id     *)
(*   research_extractions [id, title, published_date, tags, trade_ideas,   *)
(*                         created_at, deleted_at]      PRIMARY KEY id     *)
(*   extraction_tags      [extraction_id, tag_id, tag_category]            *)
(*                                    PRIMARY KEY (extraction_id, tag_id)  *)
(* The ids are UUIDs, which the code never inspects: the model numbers     *)
(* them.  The columns authors, summary, pros, cons and suggested_tags are  *)
(* stored and given back verbatim and take part in no filter.              *)
(***************************************************************************)
TagRowIds == { t.id : t \in tags }
ExtractionRowIds == { e.id : e \in research_extractions }

\* A caller's id is one the table holds already or a new one; new UUIDs are
\* interchangeable, so a new id is the least number not in use.
CallerIds(max, used) ==
    used \cup { i \in 1 .. max : i \notin used /\ \A j \in 1 .. max : j < i => j \in used }

\* category_mapping of the linker: field of the tags object -> category
\* looked up in table tags.
category_mapping ==
    [ asset_class |-> "assetClass",
      e_d         |-> "eD",
      region      |-> "region",
      country     |-> "country",
      sector      |-> "sector",
      trade       |-> "trade" ]

\* A tags object with counterpart cp and the given lists.
TagsObj(cp, asset_class, region, country, sector) ==
    [ counterpart |-> cp,
      asset_class |-> asset_class,
      e_d         |-> <<>>,
      region      |-> region,
      country     |-> country,
      sector      |-> sector,
      trade       |-> <<>> ]

\* Python truthiness of an optional string.
Truthy(x) == x # None /\ x # EmptyStr


\* A TIMESTAMP value: the n-th instant.  None is the SQL NULL of every column.
Time(n) == <<n>>
Later(a, b) == a[1] > b[1]

(***************************************************************************)
(* insert_tag(tag_id, name, category): one INSERT INTO tags.  The table    *)
(* has no constraint but PRIMARY KEY id and NOT NULL: the engine refuses   *)
(* the row when the id is present, and the method re-raises (the catalog   *)
(* is then unchanged); any other row is stored, whatever (name, category)  *)
(* the table holds already.  Field error of ret is the exception the       *)
(* method's except clause caught ("" when none), raised whether it reached *)
(* the caller.                                                             *)
(***************************************************************************)
TagInsertRefused(tag_id, name, category) == tag_id \in TagRowIds

\* The stored extractions were linked to the new tag as it is inserted.
insert_tag_linking(tag_id, name, category) ==
    IF TagInsertRefused(tag_id, name, category)
    THEN /\ ret' = [ op |-> "insert_tag", raised |-> TRUE, rows |-> <<>>,
                     error |-> "ConstraintException: PRIMARY KEY" ]
         /\ UNCHANGED <<tags, research_extractions, extraction_tags, elsewhere>>
    ELSE LET row == [ id |-> tag_id, name |-> name, category |-> category ]
         IN  /\ tags' = tags \cup { row }
             /\ extraction_tags' = extraction_tags \cup
                    { [ extraction_id |-> e.id, tag_id |-> tag_id,
                        tag_category |-> category ] : e \in research_extractions }
             /\ ret' = [ op |-> "insert_tag", raised |-> FALSE, rows |-> <<row>>,
                         error |-> "" ]
             /\ UNCHANGED <<research_extractions, elsewhere>>

insert_tag(tag_id, name, category) ==
    IF TagInsertRefused(tag_id, name, category)
    THEN /\ ret' = [ op |-> "insert_tag", raised |-> TRUE, rows |-> <<>>,
                     error |-> "ConstraintException: PRIMARY KEY" ]
         /\ UNCHANGED <<tags, research_extractions, extraction_tags, elsewhere>>
    ELSE LET row == [ id |-> tag_id, name |-> name, category |-> category ]
         IN  /\ tags' = tags \cup { row }
             /\ ret' = [ op |-> "insert_tag", raised |-> FALSE, rows |-> <<row>>,
                         error |-> "" ]
             /\ UNCHANGED <<research_extractions, extraction_tags, elsewhere>>

(***************************************************************************)
(* _insert_extraction_tag_relations(extraction_id, tags_obj): the linker.  *)
(* Every name of the six lists is looked up verbatim under the mapped      *)
(* category; the counterpart, when truthy, is looked up with its spaces    *)
(* removed under 'counterpart'.  A lookup is SELECT id .. fetchone(): when *)
(* several rows of tags match, the engine gives any one of them.           *)
(***************************************************************************)
\* The lookups of the six lists: the <<name, category>> pairs searched.
ListLookups(tags_obj) ==
    UNION { { <<tags_obj[c][i], category_mapping[c]>> : i \in DOMAIN tags_obj[c] } :
              c \in DOMAIN category_mapping }

\* The lookup of the counterpart, if it is made.
CounterpartLookups(tags_obj) ==
    IF Truthy(tags_obj.counterpart)
    THEN { <<RemoveSpaces(tags_obj.counterpart), "counterpart">> }
    ELSE {}

Lookups(tags_obj) == ListLookups(tags_obj) \cup CounterpartLookups(tags_obj)

\* The lookup were it by name alone.
MatchingTagsByName(lookup) == { t \in tags : t.name = lookup[1] }

\* SELECT id FROM tags WHERE name = ? AND category = ?
MatchingTags(lookup) ==
    { t \in tags : t.name = lookup[1] /\ t.category = lookup[2] }

FoundLookups(tags_obj) == { l \in Lookups(tags_obj) : MatchingTags(l) # {} }

\* The ways fetchone() can answer the lookups that find a tag.
Fetches(tags_obj) ==
    { f \in [ FoundLookups(tags_obj) -> TagRowIds ] :
        \A l \in FoundLookups(tags_obj) : f[l] \in { t.id : t \in MatchingTags(l) } }

\* The rows the linker tries to insert, given the answers of fetchone().
LinkRows(extraction_id, tags_obj, fetch) ==
    { [ extraction_id |-> extraction_id, tag_id |-> fetch[l], tag_category |-> l[2] ] :
        l \in DOMAIN fetch }

\* INSERT INTO extraction_tags, the duplicate of a primary key swallowed.
RowKeys(rows) == { <<r.extraction_id, r.tag_id>> : r \in rows }

InsertRelations(table, rows) ==
    table \cup { r \in rows : <<r.extraction_id, r.tag_id>> \notin RowKeys(table) }

\* The list positions (and the counterpart) whose lookup finds no tag:
\* the "no encontrado" warnings the linker prints.
Misses(tags_obj) ==
    UNION { { <<c, i>> : i \in { j \in DOMAIN tags_obj[c] :
                MatchingTags(<<tags_obj[c][j], category_mapping[c]>>) = {} } } :
            c \in DOMAIN category_mapping }
    \cup { <<"counterpart", 1>> : l \in { k \in CounterpartLookups(tags_obj) :
                                            MatchingTags(k) = {} } }

(***************************************************************************)
(* insert_extraction(data).  data['id'] and data['title'] are read with    *)
(* [] (KeyError when absent); the INSERT is refused for a NULL title and   *)
(* for an id the table holds.  Every failure is re-raised before the       *)
(* linker runs.  Otherwise the row is stored as given (deleted_at is not   *)
(* among the inserted columns, so it is NULL), the linker runs, and the    *)
(* stored row is read back and returned.  No field is validated.  A        *)
(* payload without the key 'id' is a record without the field id.          *)
(***************************************************************************)
\* The refusals were the stored ids not looked at.
ExtractionInsertRefusedForItsKeys(data) ==
    \/ "id" \notin DOMAIN data
    \/ data.title \in { Absent, None }

ExtractionInsertRefused(data) ==
    \/ "id" \notin DOMAIN data
    \/ data.title \in { Absent, None }
    \/ data.id \in ExtractionRowIds

\* The exception of a refused insert: the parameters are built in the order
\* str(data['id']), data['title'], then the engine checks the constraints.
ExtractionInsertError(data) ==
    IF "id" \notin DOMAIN data THEN "KeyError: 'id'"
    ELSE IF data.title = Absent THEN "KeyError: 'title'"
    ELSE IF data.title = None THEN "ConstraintException: NOT NULL"
    ELSE "ConstraintException: PRIMARY KEY"

\* The linker ends with a print: it has no return statement.
LinkerReturnValue(inserted_count) == None

ExtractionRow(data, now) ==
    [ id             |-> data.id,
      title          |-> data.title,
      published_date |-> data.published_date,
      tags           |-> data.tags,
      trade_ideas    |-> data.trade_ideas,
      created_at     |-> IF data.created_at = Absent THEN now ELSE data.created_at,
      deleted_at     |-> None ]

\* The steps of the linker in their order: the lists as category_mapping
\* lists them, then the counterpart.
LinkerOrder ==
    << "asset_class", "e_d", "region", "country", "sector", "trade", "counterpart" >>

\* What the linker has gone through of the tags object when step k raises
\* (a list that cannot be iterated, a failing statement): the steps before
\* k.  The except clause of the linker prints the exception and returns.
TagsSeenBefore(tags_obj, k) ==
    [ c \in DOMAIN tags_obj |->
        IF \E i \in 1 .. (k - 1) : LinkerOrder[i] = c THEN tags_obj[c]
        ELSE IF c = "counterpart" THEN EmptyStr ELSE <<>> ]

RefuseExtraction(data) ==
    /\ ret' = [ op |-> "insert_extraction", raised |-> TRUE, rows |-> <<>>,
                error |-> ExtractionInsertError(data) ]
    /\ UNCHANGED <<tags, research_extractions, extraction_tags, elsewhere>>

\* The insert were it undone when the linker raises.
StoreAndLinkOrRollBack(data, now, seen, fetch, linker_error) ==
    IF linker_error # ""
    THEN /\ ret' = [ op |-> "insert_extraction", raised |-> TRUE, rows |-> <<>>,
                     error |-> linker_error ]
         /\ UNCHANGED <<tags, research_extractions, extraction_tags, elsewhere>>
    ELSE LET row == ExtractionRow(data, now)
             new == LinkRows(data.id, seen, fetch)
             inserted_count == Cardinality(InsertRelations(extraction_tags, new))
                                   - Cardinality(extraction_tags)
         IN  /\ research_extractions' = research_extractions \cup { row }
             /\ extraction_tags' = InsertRelations(extraction_tags, new)
             /\ ret' = [ op |-> "insert_extraction", raised |-> FALSE,
                         rows |-> <<row>>, error |-> "",
                         inserted_count |-> inserted_count,
                         misses |-> Cardinality(Misses(seen)),
                         linker_error |-> linker_error,
                         linker_returned |-> LinkerReturnValue(inserted_count) ]
             /\ UNCHANGED <<tags, elsewhere>>

\* The INSERT, then the linker over the part seen of the tags object, then
\* the stored row read back.
StoreAndLink(data, now, seen, fetch, linker_error) ==
    LET row == ExtractionRow(data, now)
        new == LinkRows(data.id, seen, fetch)
        inserted_count == Cardinality(InsertRelations(extraction_tags, new))
                              - Cardinality(extraction_tags)
    IN  /\ research_extractions' = research_extractions \cup { row }
        /\ extraction_tags' = InsertRelations(extraction_tags, new)
        /\ ret' = [ op |-> "insert_extraction", raised |-> FALSE,
                    rows |-> <<row>>, error |-> "",
                    inserted_count |-> inserted_count,
                    misses |-> Cardinality(Misses(seen)),
                    linker_error |-> linker_error,
                    linker_returned |-> LinkerReturnValue(inserted_count) ]
        /\ UNCHANGED <<tags, elsewhere>>

insert_extraction(data, now, fetch) ==
    IF ExtractionInsertRefused(data)
    THEN RefuseExtraction(data)
    ELSE StoreAndLink(data, now, data.tags, fetch, "")

\* insert_extraction when step k of the linker raises.
insert_extraction_linker_raising(data, now, fetch, k) ==
    IF ExtractionInsertRefused(data)
    THEN RefuseExtraction(data)
    ELSE StoreAndLink(data, now, TagsSeenBefore(data.tags, k), fetch, "TypeError")


(***************************************************************************)
(* get_extractions(tags, start_date, end_date, limit).                     *)
(***************************************************************************)
\* normalized_tags = [tag.replace(' ', '') for tag in tags]
NormalizedTags(tag_list) == [ i \in DOMAIN tag_list |-> RemoveSpaces(tag_list[i]) ]

\* SELECT et.extraction_id FROM extraction_tags et JOIN tags t ON et.tag_id = t.id
\* WHERE t.name IN (names) GROUP BY et.extraction_id
\* HAVING COUNT(DISTINCT t.name) = n
LinkedNames(extraction_id, names) ==
    { t.name : t \in { u \in tags :
        /\ u.name \in names
        /\ \E et \in extraction_tags :
              et.extraction_id = extraction_id /\ et.tag_id = u.id } }

HavingAllTags(normalized) ==
    { x \in { et.extraction_id : et \in extraction_tags } :
        /\ LinkedNames(x, Range(normalized)) # {}
        /\ Cardinality(LinkedNames(x, Range(normalized))) = Len(normalized) }

\* "if tags and len(tags) > 0": the filter is built for a non-empty list only
\* (tags=None takes the branch of tags=[], which stands for both).
TagClause(e, tag_list) ==
    Len(tag_list) > 0
        => e.id \in HavingAllTags(NormalizedTags(tag_list))

\* The start bound were it exclusive: re.published_date > ?
StartClauseExclusive(e, start_date) ==
    Truthy(start_date)
        => (e.published_date # None /\ StrLess(start_date, e.published_date))

\* "if start_date:" re.published_date >= ?   (NULL compares to nothing)
StartClause(e, start_date) ==
    Truthy(start_date)
        => (e.published_date # None /\ StrLeq(start_date, e.published_date))

\* "if end_date:" re.published_date <= ?
EndClause(e, end_date) ==
    Truthy(end_date)
        => (e.published_date # None /\ StrLeq(e.published_date, end_date))

Selected(tag_list, start_date, end_date) ==
    { e \in research_extractions :
        /\ TagClause(e, tag_list)
        /\ StartClause(e, start_date)
        /\ EndClause(e, end_date) }

\* ORDER BY re.published_date DESC, re.created_at DESC: row a has to come
\* before row b.  Where a NULL published_date goes is the engine's default
\* null order: first or last, by the engine's version.
DateBefore(a, b, nulls_first) ==
    IF a.published_date = None \/ b.published_date = None
    THEN IF nulls_first
         THEN a.published_date = None /\ b.published_date # None
         ELSE a.published_date # None /\ b.published_date = None
    ELSE StrLess(b.published_date, a.published_date)

OrderedBefore(a, b, nulls_first) ==
    \/ DateBefore(a, b, nulls_first)
    \/ /\ a.published_date = b.published_date
       /\ Later(a.created_at, b.created_at)

\* The sequences an ORDER BY may give for the rows S: rows equal in every
\* sort key come in any order.
Orderings(S, nulls_first) ==
    { q \in [ 1 .. Cardinality(S) -> S ] :
        /\ \A i, j \in 1 .. Cardinality(S) : i # j => q[i] # q[j]
        /\ \A i, j \in 1 .. Cardinality(S) :
              i < j => ~ OrderedBefore(q[j], q[i], nulls_first) }

\* "if limit:" LIMIT n
Limited(q, limit) ==
    IF limit # None /\ limit[1] # 0
    THEN SubSeq(q, 1, IF limit[1] < Len(q) THEN limit[1] ELSE Len(q))
    ELSE q

GetExtractionsResults(tag_list, start_date, end_date, limit) ==
    { Limited(q, limit) :
        q \in UNION { Orderings(Selected(tag_list, start_date, end_date), nf) :
                        nf \in BOOLEAN } }

get_extractions(tag_list, start_date, end_date, limit) ==
    /\ \E rows \in GetExtractionsResults(tag_list, start_date, end_date, limit) :
          ret' = [ op |-> "get_extractions", raised |-> FALSE, rows |-> rows,
                   error |-> "",
                   tags |-> tag_list, start_date |-> start_date,
                   end_date |-> end_date, limit |-> limit ]
    /\ UNCHANGED <<tags, research_extractions, extraction_tags, elsewhere>>

(***************************************************************************)
(* get_extraction_by_id(extraction_id): the row with that id or None (here *)
(* the empty sequence); its only parameter is the id.                      *)
(***************************************************************************)
ExtractionById(extraction_id) ==
    { e \in research_extractions : e.id = extraction_id }

get_extraction_by_id(extraction_id) ==
    /\ ret' = [ op |-> "get_extraction_by_id", raised |-> FALSE,
                rows |-> IF ExtractionById(extraction_id) = {} THEN <<>>
                         ELSE << CHOOSE e \in ExtractionById(extraction_id) : TRUE >>,
                id |-> extraction_id, error |-> "" ]
    /\ UNCHANGED <<tags, research_extractions, extraction_tags, elsewhere>>

(***************************************************************************)
(* update_extraction_deleted_at(extraction_id, deleted_at):                *)
(* UPDATE research_extractions SET deleted_at = ? WHERE id = ?; True       *)
(* unless the engine raises, whether or not a row has that id.             *)
(***************************************************************************)
\* The UPDATE were it without its WHERE clause.
WithDeletedAtInEveryRow(e, extraction_id, deleted_at) ==
    [ e EXCEPT !.deleted_at = deleted_at ]

WithDeletedAt(e, extraction_id, deleted_at) ==
    IF e.id = extraction_id THEN [ e EXCEPT !.deleted_at = deleted_at ] ELSE e

update_extraction_deleted_at(extraction_id, deleted_at) ==
    /\ research_extractions' =
          { WithDeletedAt(e, extraction_id, deleted_at) : e \in research_extractions }
    /\ ret' = [ op |-> "update_extraction_deleted_at", raised |-> FALSE,
                rows |-> <<>>, id |-> extraction_id, value |-> TRUE,
                error |-> "" ]
    /\ UNCHANGED <<tags, extraction_tags, elsewhere>>


(***************************************************************************)
(* get_popular_tags(tag_names, start_date, end_date, limit): tags JOIN     *)
(* extraction_tags JOIN research_extractions, the extractions restricted   *)
(* by the method's own copy of the tag and date clauses, GROUP BY t.name,  *)
(* t.category, ORDER BY usage_count DESC, LIMIT ? (always applied).        *)
(***************************************************************************)
\* re.id IN (SELECT extraction_id .. WHERE t2.name IN (..) GROUP BY
\* extraction_id HAVING COUNT(DISTINCT t2.name) = ?), and the two dates.
PopularCandidates(tag_names, start_date, end_date) ==
    { e \in research_extractions :
        /\ Len(tag_names) > 0 =>
              LET names == { RemoveSpaces(tag_names[i]) : i \in DOMAIN tag_names }
                  found == { t.name : t \in { u \in tags :
                               /\ u.name \in names
                               /\ \E et \in extraction_tags :
                                     et.extraction_id = e.id /\ et.tag_id = u.id } }
              IN  found # {} /\ Cardinality(found) = Len(tag_names)
        /\ Truthy(start_date) =>
              (e.published_date # None /\ StrLeq(start_date, e.published_date))
        /\ Truthy(end_date) =>
              (e.published_date # None /\ StrLeq(e.published_date, end_date)) }

\* The rows of the join whose extraction is in S: <<tag, extraction id>>.
JoinedRows(S) ==
    { j \in tags \X { e.id : e \in S } :
        \E et \in extraction_tags :
            et.tag_id = j[1].id /\ et.extraction_id = j[2] }

\* The groups were they made by name alone.
PopularGroupsByName(tag_names, start_date, end_date) ==
    LET J == JoinedRows(PopularCandidates(tag_names, start_date, end_date))
    IN  { [ name |-> n,
            category |-> (CHOOSE j \in J : j[1].name = n)[1].category,
            usage_count |-> Cardinality({ r[2] : r \in { j \in J :
                               j[1].name = n } }) ] :
          n \in { j[1].name : j \in J } }

\* GROUP BY t.name, t.category with COUNT(DISTINCT et.extraction_id).
PopularGroups(tag_names, start_date, end_date) ==
    LET J == JoinedRows(PopularCandidates(tag_names, start_date, end_date))
    IN  { [ name |-> k[1], category |-> k[2],
            usage_count |-> Cardinality({ r[2] : r \in { j \in J :
                               j[1].name = k[1] /\ j[1].category = k[2] } }) ] :
          k \in { <<j[1].name, j[1].category>> : j \in J } }

\* The sequences ORDER BY <count> DESC may give for the groups G, count
\* being the function from a group to its count: equal counts in any order.
DescendingBy(G, count) ==
    { q \in [ 1 .. Cardinality(G) -> G ] :
        /\ \A i, j \in 1 .. Cardinality(G) : i # j => q[i] # q[j]
        /\ \A i, j \in 1 .. Cardinality(G) : i < j => count[q[i]] >= count[q[j]] }

\* LIMIT n
FirstRows(q, n) == SubSeq(q, 1, IF n < Len(q) THEN n ELSE Len(q))

GetPopularTagsResults(tag_names, start_date, end_date, limit) ==
    LET G == PopularGroups(tag_names, start_date, end_date)
    IN  { FirstRows(q, limit) :
            q \in DescendingBy(G, [ g \in G |-> g.usage_count ]) }

get_popular_tags(tag_names, start_date, end_date, limit) ==
    /\ \E rows \in GetPopularTagsResults(tag_names, start_date, end_date, limit) :
          ret' = [ op |-> "get_popular_tags", raised |-> FALSE, rows |-> rows,
                   error |-> "", tags |-> tag_names, start_date |-> start_date,
                   end_date |-> end_date, limit |-> <<limit>> ]
    /\ UNCHANGED <<tags, research_extractions, extraction_tags, elsewhere>>

(***************************************************************************)
(* get_extractions_by_country / get_extractions_by_sector(tag_names,       *)
(* start_date, end_date): the same join WHERE t.category = 'country'       *)
(* (resp. 'sector'), with the methods' own copy of the tag and date        *)
(* clauses, GROUP BY t.name, ORDER BY count DESC.                          *)
(***************************************************************************)
CategoryCandidates(tag_names, start_date, end_date) ==
    { e \in research_extractions :
        /\ Len(tag_names) > 0 =>
              LET names == { RemoveSpaces(tag_names[i]) : i \in DOMAIN tag_names }
                  found == { t.name : t \in { u \in tags :
                               /\ u.name \in names
                               /\ \E et \in extraction_tags :
                                     et.extraction_id = e.id /\ et.tag_id = u.id } }
              IN  found # {} /\ Cardinality(found) = Len(tag_names)
        /\ Truthy(start_date) =>
              (e.published_date # None /\ StrLeq(start_date, e.published_date))
        /\ Truthy(end_date) =>
              (e.published_date # None /\ StrLeq(e.published_date, end_date)) }

\* The rows were the category not looked at.
CategoryRowsOfAnyCategory(category, S) == JoinedRows(S)

\* WHERE t.category = ?
CategoryRows(category, S) == { j \in JoinedRows(S) : j[1].category = category }

\* GROUP BY t.name with COUNT(DISTINCT re.id).
CategoryGroups(category, tag_names, start_date, end_date) ==
    LET J == CategoryRows(category,
                          CategoryCandidates(tag_names, start_date, end_date))
    IN  { [ tag_name |-> n,
            count |-> Cardinality({ r[2] : r \in { j \in J : j[1].name = n } }) ] :
          n \in { j[1].name : j \in J } }

CountByCategory(op, category, tag_names, start_date, end_date) ==
    /\ \E rows \in DescendingBy(
                      CategoryGroups(category, tag_names, start_date, end_date),
                      [ g \in CategoryGroups(category, tag_names,
                                             start_date, end_date) |-> g.count ]) :
          ret' = [ op |-> op, raised |-> FALSE, rows |-> rows, error |-> "",
                   tags |-> tag_names, start_date |-> start_date,
                   end_date |-> end_date ]
    /\ UNCHANGED <<tags, research_extractions, extraction_tags, elsewhere>>

get_extractions_by_country(tag_names, start_date, end_date) ==
    CountByCategory("get_extractions_by_country", "country",
                    tag_names, start_date, end_date)

get_extractions_by_sector(tag_names, start_date, end_date) ==
    CountByCategory("get_extractions_by_sector", "sector",
                    tag_names, start_date, end_date)

(***************************************************************************)
(* A failure of the storage engine inside a method (conn.execute raises).  *)
(* insert_extraction and insert_tag print and re-raise; get_extractions,   *)
(* get_popular_tags and get_extractions_by_country/_by_sector print and    *)
(* return []; get_extraction_by_id prints and returns None;                *)
(* update_extraction_deleted_at prints and returns False.  The failing     *)
(* statement writes nothing.                                               *)
(***************************************************************************)
Reraising == { "insert_extraction", "insert_tag" }

ReturningEmptyList ==
    { "get_extractions", "get_popular_tags", "get_extractions_by_country",
      "get_extractions_by_sector" }

CoreOperations ==
    Reraising \cup ReturningEmptyList
        \cup { "get_extraction_by_id", "update_extraction_deleted_at" }

engine_failure(op, extraction_id) ==
    /\ ret' = IF op = "update_extraction_deleted_at"
              THEN [ op |-> op, raised |-> FALSE, rows |-> <<>>,
                     error |-> "IOException", id |-> extraction_id,
                     value |-> FALSE ]
              ELSE IF op = "get_extraction_by_id"
              THEN [ op |-> op, raised |-> FALSE, rows |-> <<>>,
                     error |-> "IOException", id |-> extraction_id ]
              ELSE [ op |-> op, raised |-> op \in Reraising, rows |-> <<>>,
                     error |-> "IOException" ]
    /\ UNCHANGED <<tags, research_extractions, extraction_tags, elsewhere>>

(***************************************************************************)
(* Re-ingestion of a list of records (as get_extractions returns them)     *)
(* into a new database: insert_extraction over each record in turn, a      *)
(* refused record skipped.  A returned record carries every column; the    *)
(* INSERT takes id, title, published_date, the JSON columns and            *)
(* created_at from it and leaves deleted_at NULL.                          *)
(***************************************************************************)
\* The refusals were a record with deleted_at set refused too.
RefusedIntoOrDeleted(table, data) ==
    \/ "id" \notin DOMAIN data
    \/ data.title \in { Absent, None }
    \/ data.id \in { e.id : e \in table }
    \/ data.deleted_at # None

\* ExtractionInsertRefused, for the table of the new database.
RefusedInto(table, data) ==
    \/ "id" \notin DOMAIN data
    \/ data.title \in { Absent, None }
    \/ data.id \in { e.id : e \in table }

RECURSIVE ReIngested(_, _, _)
ReIngested(records, n, now) ==
    IF n = 0 THEN {}
    ELSE LET table == ReIngested(records, n - 1, now)
         IN  IF RefusedInto(table, records[n]) THEN table
             ELSE table \cup { ExtractionRow(records[n], now) }

(***************************************************************************)
(* src/main.py: POST /insert.  insert_rows hands the batch to              *)
(* db.insert_dataframe(table, df, id_field) and answers 200 with the       *)
(* number of rows and the ids the request gave; a ValueError of            *)
(* insert_dataframe is answered 400 and every other exception, an          *)
(* HTTPException among them, 500.  insert_dataframe is a method of an      *)
(* earlier DuckDBClient that src/database.py does not have: what it does   *)
(* is taken from the specification and the tests of the endpoint (a row    *)
(* without an id gets the next integer after the largest id seen so far;   *)
(* a batch with an id the table holds, or with an id twice, is refused     *)
(* whole).  Which exception it raises for a refused batch is not known.    *)
(* A batch row without the key 'id' is a record without the field id.      *)
(***************************************************************************)
RequestTableIds == { r.id : r \in request_table }

Largest(S) == IF S = {} THEN 0 ELSE CHOOSE m \in S : \A n \in S : n <= m

\* The id of a row given without one.  (First: the number of ids seen plus
\* one.)
NextIdByCount(seen) == Cardinality(seen) + 1

NextId(seen) == Largest(seen) + 1

\* The batch with an id in every row: seen are the ids of the table and of
\* the rows of the batch gone through.
RECURSIVE WithIds(_, _)
WithIds(batch, seen) ==
    IF batch = <<>> THEN <<>>
    ELSE LET row == Head(batch)
             id  == IF "id" \in DOMAIN row THEN row.id ELSE NextId(seen)
         IN  << [ id |-> id, item |-> row.item ] >>
                 \o WithIds(Tail(batch), seen \cup { id })

\* The batch cannot be stored under PRIMARY KEY id.
HasDuplicates(rows) ==
    \/ \E i \in DOMAIN rows : rows[i].id \in RequestTableIds
    \/ \E i, j \in DOMAIN rows : i # j /\ rows[i].id = rows[j].id

\* What insert_dataframe does to the table, and the exception it ends with
\* ("" when none; value_error: the exception of a refused batch is a
\* ValueError).
insert_dataframe(batch, value_error) ==
    LET rows == WithIds(batch, RequestTableIds)
    IN  IF HasDuplicates(rows)
        THEN [ table |-> request_table, stored |-> <<>>,
               error |-> IF value_error THEN "ValueError" ELSE "Exception" ]
        ELSE [ table |-> request_table \cup Range(rows), stored |-> rows,
               error |-> "" ]

\* str() of an id of the request: its decimal digits.
RECURSIVE Str(_)
Str(n) == IF n < 10 THEN << 48 + n >> ELSE Str(n \div 10) \o << 48 + (n % 10) >>

\* [str(row[id_field]) for row in request.data if id_field in row]
RECURSIVE RequestIds(_)
RequestIds(batch) ==
    IF batch = <<>> THEN <<>>
    ELSE (IF "id" \in DOMAIN Head(batch) THEN << Str(Head(batch).id) >> ELSE <<>>)
             \o RequestIds(Tail(batch))

\* The status of the answer: the except clauses of insert_rows.
InsertStatus(error) ==
    IF error = "" THEN 200 ELSE IF error = "ValueError" THEN 400 ELSE 500

insert_rows(batch, value_error) ==
    LET done == insert_dataframe(batch, value_error)
    IN  /\ request_table' = done.table
        /\ ret' = [ op |-> "insert_rows", raised |-> done.error # "", rows |-> <<>>,
                    error |-> done.error, status |-> InsertStatus(done.error),
                    count |-> Len(batch), ids |-> RequestIds(batch),
                    batch |-> batch, stored |-> done.stored ]
        /\ UNCHANGED <<tags, research_extractions, extraction_tags, calls, description>>

(***************************************************************************)
(* _insert_extraction_tag_relations(extraction_id, tags_obj) called by     *)
(* itself, for an extraction that is stored already: the lookups and the   *)
(* INSERTs of the linker and nothing else.  A row whose (extraction_id,    *)
(* tag_id) is present is refused by the primary key and the refusal is     *)
(* swallowed; the method returns nothing and raises nothing.               *)
(***************************************************************************)
insert_extraction_tag_relations(extraction_id, tags_obj, fetch) ==
    LET new == LinkRows(extraction_id, tags_obj, fetch)
    IN  /\ extraction_tags' = InsertRelations(extraction_tags, new)
        /\ ret' = [ op |-> "_insert_extraction_tag_relations", raised |-> FALSE,
                    rows |-> <<>>, error |-> "", extraction_id |-> extraction_id,
                    tags |-> tags_obj,
                    inserted_count |-> Cardinality(InsertRelations(extraction_tags, new))
                                          - Cardinality(extraction_tags) ]
        /\ UNCHANGED <<tags, research_extractions, elsewhere>>

(***************************************************************************)
(* The calls statement by statement.  Every method runs its statements on  *)
(* self.conn, the one connection of the one DuckDBClient of the server,    *)
(* and takes no lock; conn.description holds the columns of the statement  *)
(* the connection executed last, whichever call executed it.  A thread     *)
(* that is part-way through a call has in calls its position (pc), the     *)
(* columns of its own query, the rows fetched and the dicts built so far.  *)
(***************************************************************************)
TagColumns == << "id", "name", "category" >>

ExtractionColumns ==
    << "id", "title", "published_date", "tags", "trade_ideas", "created_at",
       "deleted_at" >>

\* What the connection describes after a statement that is no SELECT.
CountColumns == << "Count" >>

\* A row as the engine gives it: the values in the order of the columns.
RowValues(record, columns) == [ i \in DOMAIN columns |-> record[columns[i]] ]

\* _row_to_dict(row): dict(zip(columns, row)) with the columns read from
\* conn.description when the row is converted.
row_to_dict(row) ==
    LET n == IF Len(description) < Len(row) THEN Len(description) ELSE Len(row)
    IN  [ c \in { description[i] : i \in 1 .. n } |->
            row[CHOOSE i \in 1 .. n :
                  description[i] = c /\ \A j \in 1 .. n : description[j] = c => j <= i] ]

\* The lookups of the linker in the order it makes them.
LookupsInOrder(tags_obj) ==
    LET OfList(c) == [ i \in DOMAIN tags_obj[c] |-> <<tags_obj[c][i], category_mapping[c]>> ]
    IN  OfList("asset_class") \o OfList("e_d") \o OfList("region") \o OfList("country")
            \o OfList("sector") \o OfList("trade")
            \o (IF Truthy(tags_obj.counterpart)
                THEN << <<RemoveSpaces(tags_obj.counterpart), "counterpart">> >>
                ELSE <<>>)

\* The INSERT of insert_extraction: a refused row is re-raised at once.
execute_insert(t, data, now) ==
    /\ calls[t].op = "idle"
    /\ IF ExtractionInsertRefused(data)
       THEN RefuseExtraction(data)
       ELSE /\ research_extractions' = research_extractions \cup { ExtractionRow(data, now) }
            /\ calls' = [ calls EXCEPT ![t] =
                            [ op |-> "insert_extraction", pc |-> "linker", id |-> data.id,
                              tags |-> data.tags, found |-> <<>>, columns |-> <<>>,
                              result |-> <<>>, dicts |-> <<>> ] ]
            /\ description' = CountColumns
            /\ UNCHANGED <<tags, extraction_tags, ret, request_table>>

\* The linker returned before it looked anything up.
LinkerSkipped(call) == TRUE

\* The linker has gone through the tags object.
LinkerDone(call) == Len(call.found) = Len(LookupsInOrder(call.tags))

\* SELECT id FROM tags WHERE name = ? AND category = ?  .fetchone()
linker_select(t) ==
    /\ calls[t].op = "insert_extraction"
    /\ calls[t].pc = "linker"
    /\ ~LinkerDone(calls[t])
    /\ LET lookup  == LookupsInOrder(calls[t].tags)[Len(calls[t].found) + 1]
           answers == IF MatchingTags(lookup) = {} THEN { None }
                      ELSE { << m.id >> : m \in MatchingTags(lookup) }
       IN  \E answer \in answers :
               calls' = [ calls EXCEPT ![t].found = Append(@, answer),
                                       ![t].pc = IF answer = None THEN "linker"
                                                 ELSE "relation" ]
    /\ description' = << "id" >>
    /\ UNCHANGED <<tags, research_extractions, extraction_tags, ret, request_table>>

\* INSERT INTO extraction_tags of the tag just found.
linker_insert(t) ==
    /\ calls[t].op = "insert_extraction"
    /\ calls[t].pc = "relation"
    /\ LET k   == Len(calls[t].found)
           row == [ extraction_id |-> calls[t].id, tag_id |-> calls[t].found[k][1],
                    tag_category |-> LookupsInOrder(calls[t].tags)[k][2] ]
       IN  extraction_tags' = InsertRelations(extraction_tags, { row })
    /\ calls' = [ calls EXCEPT ![t].pc = "linker" ]
    /\ description' = CountColumns
    /\ UNCHANGED <<tags, research_extractions, ret, request_table>>

\* SELECT * FROM research_extractions WHERE id = ?  after the linker.
select_inserted(t) ==
    /\ calls[t].op = "insert_extraction"
    /\ calls[t].pc = "linker"
    /\ LinkerDone(calls[t])
    /\ \E e \in research_extractions :
         /\ e.id = calls[t].id
         /\ calls' = [ calls EXCEPT ![t].pc = "rows",
                                    ![t].columns = ExtractionColumns,
                                    ![t].result = << RowValues(e, ExtractionColumns) >> ]
    /\ description' = ExtractionColumns
    /\ UNCHANGED <<tags, research_extractions, extraction_tags, ret, request_table>>

\* conn.execute(query).fetchall() of a read whose query has the columns
\* given and the records given as its result.
execute_read(t, op, columns, records) ==
    /\ calls[t].op = "idle"
    /\ calls' = [ calls EXCEPT ![t] =
                    [ op |-> op, pc |-> "rows", columns |-> columns,
                      result |-> [ i \in DOMAIN records |-> RowValues(records[i], columns) ],
                      dicts |-> <<>> ] ]
    /\ description' = columns
    /\ UNCHANGED <<tags, research_extractions, extraction_tags, ret, request_table>>

\* The next row of the result through _row_to_dict.
convert_row(t) ==
    /\ calls[t].op # "idle"
    /\ calls[t].pc = "rows"
    /\ Len(calls[t].dicts) < Len(calls[t].result)
    /\ calls' = [ calls EXCEPT ![t].dicts =
                    Append(@, row_to_dict(calls[t].result[Len(calls[t].dicts) + 1])) ]
    /\ UNCHANGED <<tags, research_extractions, extraction_tags, ret, request_table,
                   description>>

\* The dicts go back to the caller.
return_rows(t) ==
    /\ calls[t].op # "idle"
    /\ calls[t].pc = "rows"
    /\ Len(calls[t].dicts) = Len(calls[t].result)
    /\ ret' = [ op |-> calls[t].op, raised |-> FALSE, rows |-> calls[t].dicts,
                error |-> "", thread |-> t, columns |-> calls[t].columns ]
    /\ calls' = [ calls EXCEPT ![t] = Idle ]
    /\ UNCHANGED <<tags, research_extractions, extraction_tags, request_table,
                   description>>

\* get_tags_by_category: SELECT * FROM tags WHERE category = ? ORDER BY name.
TagsByCategory(category) ==
    LET S == { m \in tags : m.category = category }
    IN  { q \in [ 1 .. Cardinality(S) -> S ] :
            /\ \A i, j \in DOMAIN q : i # j => q[i] # q[j]
            /\ \A i, j \in DOMAIN q : i < j => StrLeq(q[i].name, q[j].name) }

(***************************************************************************)
(* src/initialization.py: parse_date, normalize_tags_structure and the     *)
(* per-file step of load_mock_extractions.                                 *)
(***************************************************************************)
\* invalid_dates: "Información no disponible", "Fecha no disponible",
\* "No disponible", "N/A", ""
invalid_dates ==
    { <<73, 110, 102, 111, 114, 109, 97, 99, 105, 243, 110, 32, 110, 111, 32, 100, 105, 115, 112, 111, 110, 105, 98, 108, 101>>,
      <<70, 101, 99, 104, 97, 32, 110, 111, 32, 100, 105, 115, 112, 111, 110, 105, 98, 108, 101>>,
      <<78, 111, 32, 100, 105, 115, 112, 111, 110, 105, 98, 108, 101>>,
      <<78, 47, 65>>,
      EmptyStr }

Number2(s, i) == 10 * DigitValue(s[i]) + DigitValue(s[i + 1])
Number4(s, i) == 100 * Number2(s, i) + Number2(s, i + 2)

IsLeapYear(y) == (y % 4 = 0 /\ y % 100 # 0) \/ y % 400 = 0

DaysInMonth(y, m) ==
    IF m = 2 THEN (IF IsLeapYear(y) THEN 29 ELSE 28)
    ELSE IF m \in { 4, 6, 9, 11 } THEN 30 ELSE 31

\* A 10-character YYYY-MM-DD string naming a day of the calendar: what
\* datetime.fromisoformat takes in every Python version.
IsCalendarDate(s) ==
    /\ Len(s) = 10
    /\ s[5] = 45 /\ s[8] = 45                              \* '-'
    /\ \A i \in { 1, 2, 3, 4, 6, 7, 9, 10 } : IsDigit(s[i])
    /\ Number4(s, 1) >= 1
    /\ Number2(s, 6) \in 1 .. 12
    /\ Number2(s, 9) >= 1
    /\ Number2(s, 9) <= DaysInMonth(Number4(s, 1), Number2(s, 6))

\* A 10-character YYYY-Www-D week date: datetime.fromisoformat takes it from
\* Python 3.11 on and raises ValueError before.
IsWeekDate(s) ==
    /\ Len(s) = 10
    /\ s[5] = 45 /\ s[6] = 87 /\ s[9] = 45                 \* '-', 'W', '-'
    /\ \A i \in { 1, 2, 3, 4, 7, 8, 10 } : IsDigit(s[i])
    /\ Number4(s, 1) >= 1
    /\ Number2(s, 7) \in 1 .. 52
    /\ DigitValue(s[10]) \in 1 .. 7

\* The results parse_date(raw_date) may give when today's date is today.
parse_date(raw_date, today) ==
    IF ~ Truthy(raw_date) \/ raw_date \in invalid_dates THEN { today }
    ELSE IF IsCalendarDate(raw_date) THEN { raw_date }
    ELSE IF IsWeekDate(raw_date) THEN { raw_date, today }
    ELSE { today }

\* The name lists of normalize_tags_structure.
AssetClassNames ==
    { Equity,
      <<70, 105, 120, 101, 100, 32, 73, 110, 99, 111, 109, 101>>,
      <<67, 111, 109, 109, 111, 100, 105, 116, 105, 101, 115>>,
      <<70, 88>>,
      <<67, 114, 121, 112, 116, 111>> }
EDNames ==
    { <<69, 109, 101, 114, 103, 105, 110, 103>>,
      <<68, 101, 118, 101, 108, 111, 112, 101, 100>> }
RegionNames ==
    { Asia_Pacific,
      <<69, 117, 114, 111, 112, 101>>,
      <<65, 109, 101, 114, 105, 99, 97, 115>>,
      <<77, 105, 100, 100, 108, 101, 32, 69, 97, 115, 116>>,
      <<65, 102, 114, 105, 99, 97>> }

\* normalize_tags_structure(tags_data, counterpart) for a flat list.
normalize_tags_structure(tags_data, counterpart) ==
    [ counterpart |-> counterpart,
      asset_class |-> SelectSeq(tags_data, LAMBDA n : n \in AssetClassNames),
      e_d         |-> SelectSeq(tags_data, LAMBDA n : n \in EDNames),
      region      |-> SelectSeq(tags_data, LAMBDA n : n \in RegionNames),
      country     |-> SelectSeq(tags_data, LAMBDA n :
                          n \notin AssetClassNames \cup EDNames \cup RegionNames),
      sector      |-> <<>>,
      trade       |-> <<>> ]

MockTitle == <<65, 110, 225, 108, 105, 115, 105, 115>>     \* "Análisis"

\* extraction_data of load_mock_extractions for one summary file and its
\* trade file: file = [date, tags, convictions].
MockExtractionData(file, id, valid_date, now) ==
    [ id             |-> id,
      title          |-> MockTitle,
      published_date |-> valid_date,
      tags           |-> normalize_tags_structure(file.tags, Goldman_Sachs),
      trade_ideas    |-> [ i \in DOMAIN file.convictions |->
                             [ conviction |-> file.convictions[i] ] ],
      created_at     |-> now ]

load_mock_extraction(file, id, today, now, valid_date, fetch) ==
    /\ valid_date \in parse_date(file.date, today)
    /\ insert_extraction(MockExtractionData(file, id, valid_date, now), now, fetch)


(***************************************************************************)
(* src/initialization.py: load_default_tags().  Every name of the          *)
(* default_tags dict is inserted with insert_tag under a new uuid4 and     *)
(* under the key of the dict as its category, the name as it is written.   *)
(* The model has the first name of the categories counterpart,             *)
(* asset_class, region and country.  The script calls it on the tables it  *)
(* has just created.                                                       *)
(***************************************************************************)
default_tags ==
    << <<Goldman_Sachs, "counterpart">>, <<Equity, "asset_class">>,
       <<Asia_Pacific, "region">>, <<Japan, "country">> >>

load_default_tags ==
    /\ tags = {}
    /\ tags' = { [ id |-> i, name |-> default_tags[i][1],
                   category |-> default_tags[i][2] ] : i \in DOMAIN default_tags }
    /\ ret' = [ op |-> "load_default_tags", raised |-> FALSE, rows |-> <<>>,
                error |-> "", value |-> TRUE, total_inserted |-> Len(default_tags) ]
    /\ UNCHANGED <<research_extractions, extraction_tags, elsewhere>>

(***************************************************************************)
(* The state after DuckDBClient() on a new database file: empty tables.    *)
(***************************************************************************)
Init ==
    /\ tags = {}
    /\ research_extractions = {}
    /\ extraction_tags = {}
    /\ ret = [ op |-> "init", raised |-> FALSE, rows |-> <<>>, error |-> "" ]
    /\ request_table = {}
    /\ calls = [ t \in Threads |-> Idle ]
    /\ description = <<>>

(***************************************************************************)
(* The inputs the calls are given.                                         *)
(***************************************************************************)
Times == { Time(1), Time(2) }

Date_2025_11_08 == <<50, 48, 50, 53, 45, 49, 49, 45, 48, 56>>
Date_2025_11_09 == <<50, 48, 50, 53, 45, 49, 49, 45, 48, 57>>
Date_2025_11_10 == <<50, 48, 50, 53, 45, 49, 49, 45, 49, 48>>
Date_09_11_2025 == <<48, 57, 47, 49, 49, 47, 50, 48, 50, 53>>      \* "09/11/2025"
Date_2025_02_30 == <<50, 48, 50, 53, 45, 48, 50, 45, 51, 48>>      \* "2025-02-30"
Date_2025_W45_7 == <<50, 48, 50, 53, 45, 87, 52, 53, 45, 55>>      \* "2025-W45-7"
Date_NA == <<78, 47, 65>>                                    \* "N/A"

JapanQ4 == <<74, 97, 112, 97, 110, 32, 81, 52>>     \* "Japan Q4"

\* The tags of the catalog: among them a name in two categories, a name with
\* a space, and the asset-class category in both spellings.
CatalogTags ==
    { <<Japan, "country">>, <<Japan, "sector">>, <<Equity, "asset_class">>,
      <<Equity, "assetClass">>, <<GoldmanSachs, "counterpart">>,
      <<Asia_Pacific, "region">> }

\* Those whose category is spelled as the linker looks it up.
MappedCatalogTags ==
    { t \in CatalogTags :
        t[2] \in { category_mapping[c] : c \in DOMAIN category_mapping }
                   \cup { "counterpart" } }

JapanQ4Tags == TagsObj(Goldman_Sachs, <<Equity>>, <<>>, <<Japan>>, <<>>)
RegionTags == TagsObj(EmptyStr, <<>>, <<Asia_Pacific>>, <<Japan, Japan>>, <<Japan>>)
NoTags == TagsObj(EmptyStr, <<>>, <<>>, <<>>, <<>>)

Ideas(convictions) ==
    [ i \in DOMAIN convictions |-> [ conviction |-> convictions[i] ] ]

Payload(title, published_date, tags_obj, convictions, created_at) ==
    [ title |-> title, published_date |-> published_date, tags |-> tags_obj,
      trade_ideas |-> Ideas(convictions), created_at |-> created_at ]

WithId(payload, id) ==
    [ id |-> id, title |-> payload.title, published_date |-> payload.published_date,
      tags |-> payload.tags, trade_ideas |-> payload.trade_ideas,
      created_at |-> payload.created_at ]

\* Payloads that differ in their tags object.
TaggedPayloads ==
    { Payload(JapanQ4, Date_2025_11_09, JapanQ4Tags, <<8>>, Time(1)),
      Payload(JapanQ4, Date_2025_11_09, RegionTags, <<8>>, Time(1)) }

\* Payloads that differ in title, date, convictions and creation time.
DatedPayloads ==
    { Payload(JapanQ4, Date_2025_11_09, NoTags, <<1, 10>>, Time(1)),
      Payload(JapanQ4, Date_2025_11_09, NoTags, <<0>>, Time(1)),
      Payload(JapanQ4, Date_2025_11_08, NoTags, <<11>>, Time(2)),
      Payload(JapanQ4, Date_2025_11_10, NoTags, <<8>>, Absent),
      Payload(JapanQ4, Date_09_11_2025, NoTags, <<8>>, Time(2)),
      Payload(JapanQ4, None, NoTags, <<>>, Time(1)),
      Payload(Absent, Date_2025_11_09, NoTags, <<8>>, Time(1)) }

\* Mock files [date, tags, convictions] of mock_data/summary and mock_data/trade.
MockFiles ==
    { [ date |-> d, tags |-> <<Japan, Equity>>, convictions |-> <<5>> ] :
        d \in { EmptyStr, Date_NA, Date_2025_11_08, Date_09_11_2025,
                Date_2025_02_30, Date_2025_W45_7 } }

Todays == { Date_2025_11_10 }

\* The tag filters of the queries.
TagFilters ==
    { <<>>, <<Japan>>, <<Japan, Equity>>, <<Japan, Technology>>,
      <<Japan, Japan>>, <<Goldman_Sachs>>, <<Japan, GoldmanSachs>>,
      <<Asia_Pacific>> }

DateBounds == { None, EmptyStr, Date_2025_11_09 }

\* An optional integer is None or <<n>>.
Limits == { None }

(***************************************************************************)
(* The actions: a call with its inputs drawn from the sets above.          *)
(***************************************************************************)
InsertTagOf(pairs, max) ==
    \E id \in CallerIds(max, TagRowIds), t \in pairs :
        insert_tag(id, t[1], t[2])

\* datetime.now() is read only when the payload has no created_at.
Nows(payload) == IF payload.created_at = Absent THEN Times ELSE { Time(1) }

InsertExtractionOf(payloads, max) ==
    \E id \in CallerIds(max, ExtractionRowIds), p \in payloads :
        \E now \in Nows(p), fetch \in Fetches(p.tags) :
            insert_extraction(WithId(p, id), now, fetch)

InsertTag == InsertTagOf(CatalogTags, MaxTags)

InsertTaggedExtraction == InsertExtractionOf(TaggedPayloads, MaxExtractions)

InsertDatedExtraction == InsertExtractionOf(DatedPayloads, MaxExtractions)

LinkInsertTag == InsertTagOf(MappedCatalogTags, MaxLinkTags)

LinkInsertExtraction == InsertExtractionOf(TaggedPayloads, MaxLinkExtractions)

\* One file of load_mock_extractions: the id is a new uuid4().
LoadMockExtraction ==
    \E id \in CallerIds(MaxExtractions, ExtractionRowIds) \ ExtractionRowIds,
       file \in MockFiles, today \in Todays, now \in Times :
        \E valid_date \in parse_date(file.date, today) :
            \E fetch \in Fetches(normalize_tags_structure(file.tags, Goldman_Sachs)) :
                load_mock_extraction(file, id, today, now, valid_date, fetch)

UpdateExtractionDeletedAt ==
    \E id \in 1 .. MaxExtractions, deleted_at \in { None, Time(2) } :
        update_extraction_deleted_at(id, deleted_at)

GetExtractionById ==
    \E id \in 1 .. MaxExtractions : get_extraction_by_id(id)

GetExtractionsByTags ==
    \E tag_list \in TagFilters : get_extractions(tag_list, None, None, None)

GetExtractionsByDates ==
    \E start_date \in DateBounds, end_date \in DateBounds, limit \in Limits :
        get_extractions(<<>>, start_date, end_date, limit)

(***************************************************************************)
(* The specifications.                                                     *)
(*   SpecLink    the linker over a catalog whose categories are spelled    *)
(*               as category_mapping spells them                           *)
(*   SpecFilter  the catalog, the linker and the tag filter                *)
(*   SpecDates   direct inserts and the date filter                        *)
(*   SpecStore   the extraction store: the two ingestion paths, soft       *)
(*               deletion, and the reads by id and by dates                *)
(*   Spec        every action                                              *)
(***************************************************************************)
NextLink == LinkInsertTag \/ LinkInsertExtraction

SpecLink == Init /\ [][NextLink]_vars

NextFilter == InsertTag \/ InsertTaggedExtraction \/ GetExtractionsByTags

SpecFilter == Init /\ [][NextFilter]_vars

NextDates == InsertDatedExtraction \/ GetExtractionsByDates

SpecDates == Init /\ [][NextDates]_vars

NextStore ==
    \/ InsertDatedExtraction
    \/ LoadMockExtraction
    \/ UpdateExtractionDeletedAt
    \/ GetExtractionById
    \/ GetExtractionsByDates

SpecStore == Init /\ [][NextStore]_vars

Next == NextFilter \/ NextStore

Spec == Init /\ [][Next]_vars


(***************************************************************************)
(* Further calls and the specifications made of them.                      *)
(*   SpecLimit   direct inserts and get_extractions with a limit           *)
(***************************************************************************)
\* The integer limits of get_extractions(limit=n).
LimitValues == { <<0>>, <<1>>, <<2>> }

GetExtractionsLimited ==
    \E limit \in LimitValues : get_extractions(<<>>, None, None, limit)

NextLimit == InsertDatedExtraction \/ GetExtractionsLimited

SpecLimit == Init /\ [][NextLimit]_vars

\*   SpecStats   a small catalog, dated and tagged inserts, the statistics
MaxStatTags == 3
MaxStatExtractions == 2

\* The catalog of the statistics, in the order it is loaded.
StatCatalogTags ==
    << <<Japan, "country">>, <<Japan, "sector">>, <<Technology, "sector">>,
       <<GoldmanSachs, "counterpart">> >>

\* Payloads that differ in date and in what they list under country and sector.
StatPayloads ==
    { Payload(JapanQ4, Date_2025_11_09,
              TagsObj(EmptyStr, <<>>, <<>>, <<Japan>>, <<Japan>>), <<8>>, Time(1)),
      Payload(JapanQ4, Date_2025_11_08,
              TagsObj(Goldman_Sachs, <<>>, <<>>, <<Japan>>, <<Technology>>),
              <<8>>, Time(1)) }

StatTagFilters == { <<>>, <<Japan>>, <<Japan, Technology>> }
StatDateBounds == { None, Date_2025_11_09 }
StatLimits == { 1, 10 }

\* The next tag of a catalog loaded in order, or one already loaded again
\* (refused).
InsertTagInOrder(catalog, max) ==
    \E id \in CallerIds(max, TagRowIds) \cap DOMAIN catalog :
        insert_tag(id, catalog[id][1], catalog[id][2])

StatInsertTag == InsertTagInOrder(StatCatalogTags, MaxStatTags)

StatInsertExtraction == InsertExtractionOf(StatPayloads, MaxStatExtractions)

GetPopularTags ==
    \E tag_names \in StatTagFilters, start_date \in StatDateBounds,
       limit \in StatLimits :
        get_popular_tags(tag_names, start_date, None, limit)

GetExtractionsByCountry ==
    \E tag_names \in StatTagFilters, start_date \in StatDateBounds :
        get_extractions_by_country(tag_names, start_date, None)

GetExtractionsBySector ==
    \E tag_names \in StatTagFilters, start_date \in StatDateBounds :
        get_extractions_by_sector(tag_names, start_date, None)

NextStats ==
    \/ StatInsertTag
    \/ StatInsertExtraction
    \/ GetPopularTags
    \/ GetExtractionsByCountry
    \/ GetExtractionsBySector

SpecStats == Init /\ [][NextStats]_vars

\*   SpecInsert  the catalog and insert_extraction with every kind of
\*               payload: with an id, without one, without a title, and
\*               with a tags object on which the linker raises
MaxInsertTags == 3
MaxInsertExtractions == 1

InsertCatalogTags ==
    << <<Japan, "country">>, <<Equity, "assetClass">>,
       <<GoldmanSachs, "counterpart">>, <<Asia_Pacific, "region">> >>

UntitledPayloads ==
    { Payload(Absent, Date_2025_11_09, JapanQ4Tags, <<8>>, Time(1)),
      Payload(None, Date_2025_11_09, JapanQ4Tags, <<8>>, Time(1)) }

\* The payload has no key 'id'.
InsertExtractionWithoutId ==
    \E p \in TaggedPayloads : \E fetch \in Fetches(p.tags) :
        insert_extraction(p, Time(1), fetch)

InsertCatalogTag == InsertTagInOrder(InsertCatalogTags, MaxInsertTags)

InsertLinkedExtraction == InsertExtractionOf(TaggedPayloads, MaxInsertExtractions)

InsertUntitledExtraction == InsertExtractionOf(UntitledPayloads, MaxInsertExtractions)

InsertExtractionLinkerRaising ==
    \E id \in CallerIds(MaxInsertExtractions, ExtractionRowIds), p \in TaggedPayloads,
       k \in DOMAIN LinkerOrder :
        \E fetch \in Fetches(TagsSeenBefore(p.tags, k)) :
            insert_extraction_linker_raising(WithId(p, id), Time(1), fetch, k)

NextInsert ==
    \/ InsertCatalogTag
    \/ InsertLinkedExtraction
    \/ InsertExtractionWithoutId
    \/ InsertUntitledExtraction
    \/ InsertExtractionLinkerRaising

SpecInsert == Init /\ [][NextInsert]_vars

\*   SpecFailure the extraction store with failures of the storage engine
\*   SpecRoundTrip  direct inserts, soft deletion and the unfiltered read
EngineFailure ==
    \E op \in CoreOperations, id \in 1 .. MaxExtractions : engine_failure(op, id)

NextFailure == NextStore \/ EngineFailure

SpecFailure == Init /\ [][NextFailure]_vars

GetAllExtractions == get_extractions(<<>>, None, None, None)

NextRoundTrip ==
    InsertDatedExtraction \/ UpdateExtractionDeletedAt \/ GetAllExtractions

SpecRoundTrip == Init /\ [][NextRoundTrip]_vars

(***************************************************************************)
(* POST /insert into a table created with an integer primary key id.       *)
(***************************************************************************)
MaxRequestRows == 3         \* rows of the table
MaxBatch == 2               \* rows of one request
MaxRequestId == 3           \* the ids a request gives

Items == { "Item 1" }

BatchRows ==
    [ id : 1 .. MaxRequestId, item : Items ] \cup [ item : Items ]

Batches == UNION { [ 1 .. n -> BatchRows ] : n \in 1 .. MaxBatch }

InsertRows ==
    \E batch \in Batches, value_error \in BOOLEAN :
        /\ Cardinality(request_table) + Len(batch) <= MaxRequestRows
        /\ insert_rows(batch, value_error)

NextRows == InsertRows

SpecRows == Init /\ [][NextRows]_vars

\* The linker run again for a stored extraction and its tags object.
LinkAgain ==
    \E e \in research_extractions : \E fetch \in Fetches(e.tags) :
        insert_extraction_tag_relations(e.id, e.tags, fetch)

NextRelink == NextLink \/ LinkAgain

SpecRelink == Init /\ [][NextRelink]_vars

(***************************************************************************)
(* insert_extraction statement by statement, on either request thread,     *)
(* while tags are inserted.  The catalog has a name under two categories.  *)
(***************************************************************************)
MaxStepTags == 2
MaxStepExtractions == 1

StepCatalogTags ==
    << <<Japan, "sector">>, <<Japan, "country">>, <<GoldmanSachs, "counterpart">> >>

StepPayloads ==
    { Payload(JapanQ4, Date_2025_11_09,
              TagsObj(Goldman_Sachs, <<>>, <<>>, <<Japan>>, <<>>), <<8>>, Time(1)) }

StepInsertTag == InsertTagInOrder(StepCatalogTags, MaxStepTags)

ExecuteInsert ==
    \E t \in Threads, id \in CallerIds(MaxStepExtractions, ExtractionRowIds),
       p \in StepPayloads :
        execute_insert(t, WithId(p, id), Time(1))

LinkerSelect == \E t \in Threads : linker_select(t)

LinkerInsert == \E t \in Threads : linker_insert(t)

SelectInserted == \E t \in Threads : select_inserted(t)

ConvertRow == \E t \in Threads : convert_row(t)

ReturnRows == \E t \in Threads : return_rows(t)

NextSteps ==
    \/ StepInsertTag
    \/ ExecuteInsert
    \/ LinkerSelect
    \/ LinkerInsert
    \/ SelectInserted
    \/ ConvertRow
    \/ ReturnRows

SpecSteps == Init /\ [][NextSteps]_vars

\* Soft deletion among linked extractions.
NextUpdate == StatInsertTag \/ StatInsertExtraction \/ UpdateExtractionDeletedAt

SpecUpdate == Init /\ [][NextUpdate]_vars

\* The default catalog, then extractions that name its tags.
MaxDefaultExtractions == 2

DefaultPayloads ==
    { Payload(JapanQ4, Date_2025_11_09, TagsObj(cp, asset_class, region, country, <<>>),
              <<8>>, Time(1)) :
        cp \in { EmptyStr, Goldman_Sachs }, asset_class \in { <<>>, <<Equity>> },
        region \in { <<>>, <<Asia_Pacific>> }, country \in { <<>>, <<Japan>> } }

LoadDefaultTags == load_default_tags

InsertDefaultExtraction == InsertExtractionOf(DefaultPayloads, MaxDefaultExtractions)

NextDefaults == LoadDefaultTags \/ InsertDefaultExtraction

SpecDefaults == Init /\ [][NextDefaults]_vars

(***************************************************************************)
(* Two request threads reading through the shared client, statement by     *)
(* statement, the tables filled by calls that run alone.                   *)
(***************************************************************************)
ExecuteGetExtractions ==
    \E t \in Threads : \E q \in GetExtractionsResults(<<>>, None, None, None) :
        execute_read(t, "get_extractions", ExtractionColumns, q)

ExecuteGetTagsByCategory ==
    \E t \in Threads, category \in { "country", "counterpart" } :
        \E q \in TagsByCategory(category) :
            execute_read(t, "get_tags_by_category", TagColumns, q)

NextShared ==
    \/ InsertCatalogTag
    \/ InsertLinkedExtraction
    \/ ExecuteGetExtractions
    \/ ExecuteGetTagsByCategory
    \/ ConvertRow
    \/ ReturnRows

SpecShared == Init /\ [][NextShared]_vars

(***************************************************************************)
(* What the claims speak of.                                               *)
(***************************************************************************)
\* The extraction with id x is linked to tag t by a relationship row.
Linked(x, t) ==
    \E et \in extraction_tags : et.extraction_id = x /\ et.tag_id = t.id

\* The requested name resolves, after normalization, to a tag linked to x.
Resolves(name, x) ==
    \E t \in tags : t.name = RemoveSpaces(name) /\ Linked(x, t)

ReturnedIds == { ret.rows[i].id : i \in DOMAIN ret.rows }

TagQuery ==
    /\ ret.op = "get_extractions"
    /\ ret.start_date = None /\ ret.end_date = None /\ ret.limit = None

\* C1: get_extractions(tags=S), with no date bounds and no limit, returns
\* extraction E if and only if every name of the list S resolves, after
\* normalization, to a tag linked to E; so the empty list returns every
\* extraction and a name unknown to the catalog returns nothing.
C1_AndFilter ==
    TagQuery =>
        \A e \in research_extractions :
            e.id \in ReturnedIds <=>
                \A i \in DOMAIN ret.tags : Resolves(ret.tags[i], e.id)

\* The same for the lists whose names are pairwise different after
\* normalization: the case in which the filter does what C1 says.
AndFilterOfDistinctNames ==
    ( /\ TagQuery
      /\ Cardinality(Range(NormalizedTags(ret.tags))) = Len(ret.tags) ) =>
        \A e \in research_extractions :
            e.id \in ReturnedIds <=>
                \A i \in DOMAIN ret.tags : Resolves(ret.tags[i], e.id)


\* The entries the tags object holds under a category of the taxonomy: the
\* counterpart, or the list named as the category or mapped to it.
EntriesUnder(tags_obj, category) ==
    IF category = "counterpart"
    THEN { n \in { tags_obj.counterpart } : Truthy(n) }
    ELSE UNION { Range(tags_obj[c]) :
                   c \in { d \in DOMAIN category_mapping :
                             d = category \/ category_mapping[d] = category } }

\* The tags object holds, under the tag's category, an entry whose name,
\* as written or after whitespace normalization, is the tag's name.
Embedded(tags_obj, t) ==
    \E n \in EntriesUnder(tags_obj, t.category) :
        n = t.name \/ RemoveSpaces(n) = t.name

\* The tags object holds an entry that the linker looks up as tag t: in a
\* list whose category_mapping is the tag's category, the tag's name itself;
\* as counterpart, a name that is the tag's name once its spaces are removed.
LookedUpAs(tags_obj, t) ==
    \/ \E c \in DOMAIN category_mapping :
          category_mapping[c] = t.category /\ t.name \in Range(tags_obj[c])
    \/ /\ t.category = "counterpart"
       /\ Truthy(tags_obj.counterpart)
       /\ RemoveSpaces(tags_obj.counterpart) = t.name

\* C2 as stated: in every state reached by insert_tag and insert_extraction
\* calls, a relationship row (extraction, tag) exists if and only if the
\* extraction's tags object holds, under the tag's category, an entry whose
\* normalized name is the tag's name: the relationship set equals what would
\* be recomputed from the tags fields and the current catalog.
C2_RelationsAreRecomputable ==
    \A e \in research_extractions, t \in tags :
        Linked(e.id, t) <=> Embedded(e.tags, t)

\* The half of it the linker keeps: every relationship row joins a stored
\* extraction and a stored tag, copies the tag's category, and exists only if the
\* extraction's tags object holds an entry the linker looks up as that tag
\* (exact name in the list mapped to the tag's category; counterpart with
\* its spaces removed).  The relationship set is a subset of what would be
\* recomputed, not always all of it.
RelationRowsWereLookedUp ==
    \A et \in extraction_tags :
        \E e \in research_extractions, t \in tags :
            /\ e.id = et.extraction_id
            /\ t.id = et.tag_id
            /\ t.category = et.tag_category
            /\ LookedUpAs(e.tags, t)

CatalogIs(pairs) ==
    /\ { <<t.name, t.category>> : t \in tags } = pairs
    /\ Cardinality(tags) = Cardinality(pairs)

AlwaysReturns(x, tag_list) ==
    \A rows \in GetExtractionsResults(tag_list, None, None, None) :
        \E i \in DOMAIN rows : rows[i].id = x

NeverReturns(x, tag_list) ==
    \A rows \in GetExtractionsResults(tag_list, None, None, None) :
        \A i \in DOMAIN rows : rows[i].id # x

\* C3: with a catalog of exactly ("Japan","country"), ("Equity","asset_class")
\* and ("GoldmanSachs","counterpart"), inserting an extraction with the tags
\* object {counterpart: "Goldman Sachs", country: ["Japan"],
\* asset_class: ["Equity"]} creates 3 relationship rows with 0 misses, and
\* the extraction is returned for the filter ["Japan","Equity"] and not for
\* ["Japan","Technology"].
C3_JapanQ4Scenario ==
    ( /\ ret.op = "insert_extraction"
      /\ ~ ret.raised
      /\ ret.rows[1].tags = JapanQ4Tags
      /\ CatalogIs({ <<Japan, "country">>, <<Equity, "asset_class">>,
                     <<GoldmanSachs, "counterpart">> }) ) =>
        /\ ret.inserted_count = 3
        /\ ret.misses = 0
        /\ AlwaysReturns(ret.rows[1].id, <<Japan, Equity>>)
        /\ NeverReturns(ret.rows[1].id, <<Japan, Technology>>)

\* The names an extraction lists for which the linker made a row.
LinkedEntries(e) ==
    { n \in UNION { EntriesUnder(e.tags, c) :
                      c \in DOMAIN category_mapping \cup { "counterpart" } } :
        \E t \in tags : Linked(e.id, t) /\ LookedUpAs(e.tags, t)
                          /\ t.name \in { n, RemoveSpaces(n) } }

\* C5: the normalization of names is the same when linking and when
\* filtering: for every name N an extraction lists and the linker made a
\* relationship row for, the tag filter [N] returns that extraction.
C5_StoredAndQueriedFormsAgree ==
    ( TagQuery /\ Len(ret.tags) = 1 ) =>
        \A e \in research_extractions :
            ret.tags[1] \in LinkedEntries(e) => e.id \in ReturnedIds

\* C6: table tags never holds two different rows with the same
\* (name, category).
C6_NameCategoryUnique ==
    \A t, u \in tags :
        (t.name = u.name /\ t.category = u.category) => t = u

\* The stored extraction with id x.
Stored(x) == { e \in research_extractions : e.id = x }

\* C4: a soft-deleted extraction (deleted_at not null) is not found by
\* get_extraction_by_id and is not in the list of get_extractions; an
\* extraction whose deleted_at is null again is found by id.
C4_SoftDeleteVisibility ==
    /\ ret.op = "get_extraction_by_id" =>
          /\ \A i \in DOMAIN ret.rows : ret.rows[i].deleted_at = None
          /\ (\E e \in Stored(ret.id) : e.deleted_at = None) => Len(ret.rows) = 1
    /\ ret.op = "get_extractions" =>
          \A i \in DOMAIN ret.rows : ret.rows[i].deleted_at = None

\* C7: no stored extraction holds a trade idea whose conviction is outside
\* 1..10: an insert with conviction 0 or 11 is rejected.
C7_ConvictionInRange ==
    \A e \in research_extractions :
        \A i \in DOMAIN e.trade_ideas : e.trade_ideas[i].conviction \in 1 .. 10

\* C8: every stored published_date is null or a valid ISO-8601 YYYY-MM-DD
\* date.
C8_StoredDatesAreIso ==
    \A e \in research_extractions :
        e.published_date = None \/ IsCalendarDate(e.published_date)

\* A date bound is given when it is neither null nor the empty string.
Given(bound) == bound # None /\ Len(bound) > 0

\* Days are counted in the order of the calendar.
DayNumber(s) == 372 * Number4(s, 1) + 31 * Number2(s, 6) + Number2(s, 9)

IsoDate(d) == d # None /\ IsCalendarDate(d)

DateQuery ==
    /\ ret.op = "get_extractions"
    /\ ret.tags = <<>> /\ ret.limit = None
    /\ Given(ret.start_date) \/ Given(ret.end_date)

\* C9: with a start and/or end date given (and no other filter),
\* get_extractions returns exactly the extractions whose published_date d
\* has start_date <= d and d <= end_date as strings, both bounds inclusive;
\* for calendar dates that is the order of the days, so an extraction dated
\* on a bound is returned and one dated outside the range is not.
C9_InclusiveDateFilter ==
    DateQuery =>
        \A e \in research_extractions :
            /\ e.id \in ReturnedIds <=>
                  /\ Given(ret.start_date) =>
                        (e.published_date # None
                           /\ StrLeq(ret.start_date, e.published_date))
                  /\ Given(ret.end_date) =>
                        (e.published_date # None
                           /\ StrLeq(e.published_date, ret.end_date))
            /\ ( /\ IsoDate(e.published_date)
                 /\ Given(ret.start_date) => IsoDate(ret.start_date)
                 /\ Given(ret.end_date) => IsoDate(ret.end_date) ) =>
                  ( e.id \in ReturnedIds <=>
                      /\ Given(ret.start_date) =>
                            DayNumber(ret.start_date) <= DayNumber(e.published_date)
                      /\ Given(ret.end_date) =>
                            DayNumber(e.published_date) <= DayNumber(ret.end_date) )

\* A query with both bounds returned an extraction dated on the start bound
\* and left out one dated before it.
C9_Witness ==
    /\ DateQuery
    /\ Given(ret.start_date) /\ Given(ret.end_date)
    /\ \E i \in DOMAIN ret.rows : ret.rows[i].published_date = ret.start_date
    /\ \E e \in research_extractions :
          /\ IsoDate(e.published_date)
          /\ DayNumber(e.published_date) < DayNumber(ret.start_date)
          /\ e.id \notin ReturnedIds

\* C10: the list of get_extractions is ordered by published_date descending,
\* then created_at descending (rows without a date aside), and the same
\* stored state and arguments give one order only.
C10_OrderedAndDeterministic ==
    ret.op = "get_extractions" =>
        /\ \A i \in 1 .. Len(ret.rows) - 1 :
              LET a == ret.rows[i]
                  b == ret.rows[i + 1]
              IN  (a.published_date # None /\ b.published_date # None) =>
                      \/ StrLess(b.published_date, a.published_date)
                      \/ /\ a.published_date = b.published_date
                         /\ a.created_at[1] >= b.created_at[1]
        /\ \A nf \in BOOLEAN :
              Cardinality(Orderings(Selected(ret.tags, ret.start_date,
                                             ret.end_date), nf)) = 1

\* C11: get_extractions(limit=n) with an integer n >= 0 returns exactly the
\* first min(n, total) records of the ordered, filtered result; limit=0
\* returns the empty list.
C11_LimitTruncates ==
    (ret.op = "get_extractions" /\ ret.limit # None) =>
        LET S == Selected(ret.tags, ret.start_date, ret.end_date)
            n == IF ret.limit[1] < Cardinality(S)
                 THEN ret.limit[1] ELSE Cardinality(S)
        IN  /\ Len(ret.rows) = n
            /\ \E nf \in BOOLEAN : \E q \in Orderings(S, nf) :
                  \A i \in 1 .. Len(ret.rows) : ret.rows[i] = q[i]

\* The extractions get_extractions selects for the arguments of the call,
\* that a tag named n of category c is linked to.
QualifyingFor(n, c) ==
    { e \in Selected(ret.tags, ret.start_date, ret.end_date) :
        \E t \in tags : t.name = n /\ t.category = c /\ Linked(e.id, t) }

CountedPairs ==
    { p \in { <<t.name, t.category>> : t \in tags } :
        QualifyingFor(p[1], p[2]) # {} }

\* C12: get_popular_tags restricts the extractions by the tag filter and
\* the date filter of get_extractions and returns one entry per (name,
\* category) whose count is the number of distinct qualifying extractions
\* linked to that tag, ordered by count descending and cut to limit entries.
C12_PopularTags ==
    ret.op = "get_popular_tags" =>
        /\ \A i \in DOMAIN ret.rows :
              /\ <<ret.rows[i].name, ret.rows[i].category>> \in CountedPairs
              /\ ret.rows[i].usage_count =
                    Cardinality(QualifyingFor(ret.rows[i].name, ret.rows[i].category))
        /\ \A i, j \in DOMAIN ret.rows :
              i < j => /\ <<ret.rows[i].name, ret.rows[i].category>>
                            # <<ret.rows[j].name, ret.rows[j].category>>
                       /\ ret.rows[i].usage_count >= ret.rows[j].usage_count
        /\ Len(ret.rows) = IF ret.limit[1] < Cardinality(CountedPairs)
                           THEN ret.limit[1] ELSE Cardinality(CountedPairs)
        /\ \A p \in CountedPairs :
              (\A i \in DOMAIN ret.rows : <<ret.rows[i].name, ret.rows[i].category>> # p)
                => \A i \in DOMAIN ret.rows :
                      ret.rows[i].usage_count >= Cardinality(QualifyingFor(p[1], p[2]))

\* A filtered call gave a tag counted twice and left a counted tag out.
C12_Witness ==
    /\ ret.op = "get_popular_tags"
    /\ Len(ret.tags) > 0
    /\ \E i \in DOMAIN ret.rows : ret.rows[i].usage_count >= 2
    /\ Len(ret.rows) < Cardinality(CountedPairs)

\* The category a by-category call is about.
CategoryOf(op) ==
    IF op = "get_extractions_by_country" THEN "country" ELSE "sector"

\* C13: get_extractions_by_country (resp. _by_sector) looks at the tags of
\* category 'country' (resp. 'sector') only, restricts the extractions by
\* the tag filter and the date filter of get_extractions, and returns one
\* (tag_name, count) per tag name, count being the number of distinct
\* qualifying extractions linked to it, ordered by count descending.
C13_CountsByCategory ==
    ret.op \in { "get_extractions_by_country", "get_extractions_by_sector" } =>
        LET c == CategoryOf(ret.op)
            names == { p[1] : p \in { q \in CountedPairs : q[2] = c } }
        IN  /\ { ret.rows[i].tag_name : i \in DOMAIN ret.rows } = names
            /\ Len(ret.rows) = Cardinality(names)
            /\ \A i \in DOMAIN ret.rows :
                  ret.rows[i].count =
                      Cardinality(QualifyingFor(ret.rows[i].tag_name, c))
            /\ \A i, j \in DOMAIN ret.rows :
                  i < j => ret.rows[i].count >= ret.rows[j].count

\* A by-sector call with a tag filter counted two names while a tag of
\* another category was linked too.
C13_Witness ==
    /\ ret.op = "get_extractions_by_sector"
    /\ Len(ret.tags) > 0
    /\ Len(ret.rows) = 2
    /\ \E p \in CountedPairs : p[2] = "country"

\* C14: insert_extraction with a payload that has no id assigns a fresh id,
\* stores the record and returns it: such a call is never refused for the
\* missing id.
C14_IdAssignedWhenAbsent ==
    ret.op = "insert_extraction" =>
        /\ ret.error # "KeyError: 'id'"
        /\ ~ ret.raised => (Len(ret.rows) = 1 /\ ret.rows[1] \in research_extractions)

\* The exceptions of a rejected payload.
RejectionErrors ==
    { "KeyError: 'id'", "KeyError: 'title'", "ConstraintException: NOT NULL",
      "ConstraintException: PRIMARY KEY" }

\* C15: an insert_extraction that is rejected (no title, or an id the table
\* holds) raises and leaves the three tables as they were: no row without a
\* title and no second row of an id is ever stored, and a step that raises
\* changes no table.
C15_RejectedBeforeAnyWrite ==
    /\ [](\A e \in research_extractions :
              /\ e.title \notin { Absent, None }
              /\ \A f \in research_extractions : f.id = e.id => f = e)
    /\ [][ (ret'.op = "insert_extraction" /\ ret'.raised) =>
              /\ ret'.error \in RejectionErrors
              /\ UNCHANGED <<tags, research_extractions, extraction_tags>> ]_vars

\* An insert was rejected for its id while rows and links were stored.
C15_Witness ==
    /\ ret.op = "insert_extraction"
    /\ ret.raised
    /\ ret.error = "ConstraintException: PRIMARY KEY"
    /\ research_extractions # {}
    /\ extraction_tags # {}

\* C16: a failure of the linking never undoes the insert: an
\* insert_extraction raises for a rejected payload only, and otherwise the
\* row is stored and returned, whatever names the catalog lacks and whether
\* or not the linker raised; the links made before the linker raised stay.
C16_LinkingFailureIsNotFatal ==
    [][ ret'.op = "insert_extraction" =>
          IF ret'.raised
          THEN ret'.error \in RejectionErrors
          ELSE /\ Len(ret'.rows) = 1
               /\ ret'.rows[1] \in research_extractions'
               /\ extraction_tags \subseteq extraction_tags'
               /\ Cardinality(extraction_tags') =
                      Cardinality(extraction_tags) + ret'.inserted_count ]_vars

\* The linker raised after it had made a link and missed a name, and the
\* extraction is stored and returned.
C16_Witness ==
    /\ ret.op = "insert_extraction"
    /\ ~ ret.raised
    /\ ret.linker_error # ""
    /\ ret.inserted_count >= 1
    /\ ret.misses >= 1
    /\ ret.rows[1] \in research_extractions

\* C17: the linker returns to its caller the count of the relationship
\* rows it created.
C17_LinkerReturnsCount ==
    (ret.op = "insert_extraction" /\ ~ ret.raised) =>
        ret.linker_returned = << ret.inserted_count >>

\* C18: update_extraction_deleted_at on an id that no row has reports a
\* miss instead of success; on a stored id it succeeds.
C18_UpdateReportsMiss ==
    (ret.op = "update_extraction_deleted_at" /\ ret.error = "") =>
        (ret.value <=> Stored(ret.id) # {})

\* C19: a failure of the storage engine inside a core operation reaches the
\* caller as a failure (an exception, or the False of
\* update_extraction_deleted_at), which no empty or missing result is.
C19_StorageFailurePropagated ==
    ret.error = "IOException" =>
        \/ ret.raised
        \/ ret.op = "update_extraction_deleted_at" /\ ret.value = FALSE

UnfilteredRead ==
    /\ ret.op = "get_extractions"
    /\ ret.error = ""
    /\ ret.tags = <<>> /\ ret.start_date = None /\ ret.end_date = None
    /\ ret.limit = None

\* C20: reading every stored extraction with get_extractions() and
\* inserting each returned record into an empty store gives the same set of
\* ids, the same title per id and the same number of trade ideas per id.
C20_RoundTrip ==
    UnfilteredRead =>
        \A now \in Times :
            LET copy == ReIngested(ret.rows, Len(ret.rows), now)
            IN  /\ { e.id : e \in copy } = ExtractionRowIds
                /\ Cardinality(copy) = Cardinality(research_extractions)
                /\ \A e \in research_extractions : \E f \in copy :
                      /\ f.id = e.id
                      /\ f.title = e.title
                      /\ Len(f.trade_ideas) = Len(e.trade_ideas)

\* The read gave two records, one of them soft-deleted, with different
\* numbers of trade ideas.
C20_Witness ==
    /\ UnfilteredRead
    /\ Len(ret.rows) = 2
    /\ \E i \in DOMAIN ret.rows : ret.rows[i].deleted_at # None
    /\ Len(ret.rows[1].trade_ideas) # Len(ret.rows[2].trade_ideas)

\* The ids a batch gives, and whether one of them is in the table already or
\* is given twice.
GivesId(batch, i) == "id" \in DOMAIN batch[i]

BatchRepeatsAnId(batch, ids) ==
    \/ \E i \in DOMAIN batch : GivesId(batch, i) /\ batch[i].id \in ids
    \/ \E i, j \in DOMAIN batch :
          i # j /\ GivesId(batch, i) /\ GivesId(batch, j) /\ batch[i].id = batch[j].id

(***************************************************************************)
(* C21: a POST /insert whose batch has an id the table holds already, or   *)
(* the same id twice, is answered 409 and stores no row of the batch.      *)
(***************************************************************************)
C21_DuplicateBatchIs409 ==
    [][ ( ret'.op = "insert_rows" /\ BatchRepeatsAnId(ret'.batch, RequestTableIds) )
          => ( ret'.status = 409 /\ request_table' = request_table ) ]_vars

C23_LinkingIsIdempotent ==
    /\ [](\A r, s \in extraction_tags :
             (r.extraction_id = s.extraction_id /\ r.tag_id = s.tag_id) => r = s)
    /\ [][ ( /\ ret.op = "insert_extraction"
             /\ ~ret.raised
             /\ ret'.op = "_insert_extraction_tag_relations"
             /\ ret'.extraction_id = ret.rows[1].id
             /\ ret'.tags = ret.rows[1].tags )
           => ( ~ret'.raised /\ extraction_tags' = extraction_tags ) ]_vars

(***************************************************************************)
(* C24: linking is synchronous with the insert.  When insert_extraction    *)
(* returns, the linker has gone through the whole tags object and every    *)
(* tag it found is linked to the extraction in extraction_tags; and a row  *)
(* of extraction_tags only ever appears while the insert_extraction of its *)
(* extraction is in progress, never after that call has returned.  (No     *)
(* statement of the linker fails in these runs.)                           *)
(***************************************************************************)
C24_LinkingIsSynchronous ==
    [][ /\ \A t \in Threads :
             ( calls[t].op = "insert_extraction" /\ calls'[t].op = "idle" )
               => /\ Len(calls[t].found) = Len(LookupsInOrder(calls[t].tags))
                  /\ \A i \in DOMAIN calls[t].found :
                       calls[t].found[i] # None
                         => <<calls[t].id, calls[t].found[i][1]>> \in RowKeys(extraction_tags')
        /\ \A r \in extraction_tags' \ extraction_tags :
             \E t \in Threads : /\ calls[t].op = "insert_extraction"
                                /\ calls[t].id = r.extraction_id
                                /\ calls'[t].op = "insert_extraction" ]_vars

\* An insert_extraction has returned with its extraction linked.
C24_Witness ==
    /\ ret.op = "insert_extraction"
    /\ ~ret.raised
    /\ "thread" \in DOMAIN ret
    /\ \A t \in Threads : calls[t].op = "idle"
    /\ \E r \in extraction_tags : r.extraction_id \in ExtractionRowIds

(***************************************************************************)
(* C26: referential consistency.  In every state, the states between the   *)
(* statements of an insert_extraction in progress among them, each row of  *)
(* extraction_tags has the id of a stored extraction and the id of a       *)
(* stored tag, and its tag_category is the category of that tag.           *)
(***************************************************************************)
C26_ReferentialConsistency ==
    \A r \in extraction_tags :
        /\ r.extraction_id \in ExtractionRowIds
        /\ \E m \in tags : m.id = r.tag_id /\ m.category = r.tag_category

\* Between two statements: the extraction is stored and linked to a tag, and
\* its insert_extraction has not returned yet.
C26_Witness ==
    \E t \in Threads :
        /\ calls[t].op = "insert_extraction"
        /\ calls[t].pc = "linker"
        /\ \E r \in extraction_tags : r.extraction_id = calls[t].id

(***************************************************************************)
(* C25: insert_tag writes to table tags only.  It leaves every row of      *)
(* research_extractions and of extraction_tags as it is, and a row of      *)
(* extraction_tags never appears for an extraction stored before: an       *)
(* extraction inserted before a tag existed stays unlinked to it.          *)
(***************************************************************************)
C25_InsertTagTouchesOnlyTags ==
    [][ /\ ret'.op = "insert_tag"
          => /\ research_extractions' = research_extractions
             /\ extraction_tags' = extraction_tags
             /\ \A m \in tags : m \in tags'
        /\ \A r \in extraction_tags' \ extraction_tags :
             r.extraction_id \notin ExtractionRowIds ]_vars

\* A tag was inserted that a stored extraction names, and the extraction is
\* not linked to it.
C25_Witness ==
    /\ ret.op = "insert_tag"
    /\ ~ret.raised
    /\ \E e \in research_extractions :
         /\ <<ret.rows[1].name, ret.rows[1].category>> \in Lookups(e.tags)
         /\ \A r \in extraction_tags :
              ~(r.extraction_id = e.id /\ r.tag_id = ret.rows[1].id)

(***************************************************************************)
(* C28: update_extraction_deleted_at(id, ts) changes nothing but the       *)
(* deleted_at of the row with that id: the other fields of that row, the   *)
(* other rows of research_extractions, table tags and table                *)
(* extraction_tags are as they were.                                       *)
(***************************************************************************)
C28_UpdateTouchesOnlyDeletedAt ==
    [][ ret'.op = "update_extraction_deleted_at"
          => /\ tags' = tags
             /\ extraction_tags' = extraction_tags
             /\ Cardinality(research_extractions') = Cardinality(research_extractions)
             /\ \A e \in research_extractions :
                  IF e.id = ret'.id
                  THEN \E f \in research_extractions' :
                         /\ f.id = e.id
                         /\ f.title = e.title
                         /\ f.published_date = e.published_date
                         /\ f.tags = e.tags
                         /\ f.trade_ideas = e.trade_ideas
                         /\ f.created_at = e.created_at
                  ELSE e \in research_extractions' ]_vars

\* One of two linked extractions has been soft-deleted.
C28_Witness ==
    /\ ret.op = "update_extraction_deleted_at"
    /\ extraction_tags # {}
    /\ \E e, f \in research_extractions :
         /\ e.id = ret.id
         /\ e.deleted_at # None
         /\ f.id # ret.id
         /\ f.deleted_at = None

\* Lists of names, some with the same names as another: a name repeated, two
\* names in either order.
NameLists ==
    { <<Japan>>, <<Japan, Japan>>, <<Japan, Technology>>, <<Technology, Japan>> }

(***************************************************************************)
(* C27: the result of the tag filter depends only on the set of the names  *)
(* asked for: get_extractions, get_popular_tags, get_extractions_by_country*)
(* and get_extractions_by_sector give the same result for two lists with   *)
(* the same names, whether a name is repeated or the names are reordered.  *)
(***************************************************************************)
C27_FilterDependsOnNameSet ==
    \A a, b \in NameLists :
        Range(a) = Range(b) =>
            /\ GetExtractionsResults(a, None, None, None)
                 = GetExtractionsResults(b, None, None, None)
            /\ GetPopularTagsResults(a, None, None, 10)
                 = GetPopularTagsResults(b, None, None, 10)
            /\ CategoryGroups("country", a, None, None)
                 = CategoryGroups("country", b, None, None)
            /\ CategoryGroups("sector", a, None, None)
                 = CategoryGroups("sector", b, None, None)

\* The tags object names the tag under the field called as its category.
NamedUnderItsCategory(tags_obj, m) ==
    IF m.category = "counterpart" THEN tags_obj.counterpart = m.name
    ELSE /\ m.category \in DOMAIN tags_obj
         /\ m.name \in Range(tags_obj[m.category])

(***************************************************************************)
(* C29: every tag load_default_tags loads is linkable: an extraction       *)
(* inserted afterwards whose tags object has the name of the tag under     *)
(* the field called as the tag's category is linked to that tag.           *)
(***************************************************************************)
C29_DefaultTagsAreLinkable ==
    ( ret.op = "insert_extraction" /\ ~ret.raised ) =>
        \A m \in tags :
            NamedUnderItsCategory(ret.rows[1].tags, m) => Linked(ret.rows[1].id, m)

(***************************************************************************)
(* C30: under every interleaving of two calls on the shared client, each   *)
(* call's rows are dicts keyed by the columns of its own query: both the   *)
(* dicts a call has built so far and the dicts it returns.                 *)
(***************************************************************************)
C30_RowsKeyedByOwnColumns ==
    /\ \A t \in Threads :
         calls[t].op # "idle" =>
             \A i \in DOMAIN calls[t].dicts :
                 DOMAIN calls[t].dicts[i] = Range(calls[t].columns)
    /\ "thread" \in DOMAIN ret =>
         \A i \in DOMAIN ret.rows : DOMAIN ret.rows[i] = Range(ret.columns)

=============================================================================
